---- MODULE Spec2Model ----
(***************************************************************************)
(* TinyRAG: the cross-collection search (TinyRAG.search_documents), the     *)
(* evidence preview and the interactive question loop of search_cli.py;    *)
(* the chunker (DocumentProcessor.split_text), the ingestion               *)
(* (add_document, create_collection) and the collection naming             *)
(* (generate_collection_name) of document_manager.py.                      *)
(*                                                                         *)
(* Distances and similarities are fixed-point numbers in hundredths        *)
(* (Scale = 1.00); every comparison of a score is done by exact cross      *)
(* multiplication, so the model is the code over exact arithmetic.         *)
(***************************************************************************)
EXTENDS Integers, Sequences, FiniteSets, TLC

\* ---------------------------------------------------------------- bounds
MaxColls == 2          \* collections listed by the store
MaxN == 3              \* largest n_results of a search
MaxHits == 4           \* candidate hits the collections answer with in all

MaxLen == 5            \* longest text given to split_text
MaxChunk == 4          \* largest chunk_size given to split_text
MaxLenAny == 4         \* longest text of a scan with overlap >= chunk_size
MaxChunkAny == 3       \* largest chunk_size of such a scan
MaxEmit == 5           \* chunks such a scan is followed for
WideChunk == 7         \* a chunk_size with two offsets past its 70%
MaxSuffix == 4         \* characters after the letters of a wide text

MaxChunks == 4         \* most chunks of an ingested document
MaxBatch == 3          \* largest batch_size of the settings

MaxInputs == 3         \* lines read by the interactive loop

MaxPath == 4           \* longest path given to generate_collection_name

Slack == 1             \* how far from each threshold of the preview the
                       \* lengths and cut positions of a content range

\* distances a collection can answer with: similarities 0.21, 0.18, 0.05,
\* 0.01 and 0.00, one in every band of the thresholds of search_documents.
\* On these values, for answers of up to 4 hits, the floating-point
\* similarity and score of the code compare exactly as the exact ones do.
DistValues == {79, 82, 95, 99, 100}

\* ------------------------------------------------------------- constants
Scale == 100                   \* the 1 of "similarity = 1 - distance"
similarity_threshold == 1      \* 0.01
QualityFloor == 5              \* 0.05
HighQualityFloor == 10         \* 0.1 of quality_ratio
HighTierScore == 20            \* 0.2
MidTierScore == 10             \* 0.1
HighTierTake == 3
MidTierTake == 2
LowTierTake == 1

\* the evidence preview of generate_answer_with_sources
preview_limit == 150   \* lines 354, 356
cut_floor == 100       \* lines 360, 365, 370

\* the characters of a text: a letter, the sentence end, and the two
\* whitespace characters split_text looks for
Chars == {"a", ".", " ", "\n"}
Whitespace == {" ", "\n"}

VARIABLES
  listing,             \* client.list_collections(), in listing order, each
                       \* with what its query answers for this query
  encode_ok,           \* whether embedding the query and listing the
                       \* collections succeeded (lines 81, 100)
  n_results,
  pc,                  \* position in search_documents
  collection_results,
  sorted_collections,
  k,                   \* index of the ranked walk (the for loop of line 192)
  selected_results,
  visited,             \* locals of each iteration of the ranked walk
  result,              \* the value returned by search_documents
  text, chunk_size, overlap,     \* arguments of split_text
  spc,                 \* position in split_text
  start, chunk_id, chunks, metadata,
  store,               \* the collections of the ChromaDB client, by name,
                       \* each the set of its record ids
  store_before,        \* the store when add_document was entered
  collection_name,     \* argument of create_collection
  response,            \* what the user typed at the overwrite prompt
  ipc,                 \* position in create_collection
  n_chunks,            \* len(chunks) of the split document
  batch_size,          \* settings["embedding_model"]["batch_size"]
  batch_i, chunk_j,    \* the loop variables i and j of lines 448 and 489
  total_processed,
  calls,               \* the encode/add attempts made so far, in order
  returned,            \* the value returned by add_document
  content,             \* result['content'] of a hit given as evidence
  content_preview,
  ppc,                 \* position in the preview of lines 352-376
  apc,                 \* position in the interactive loop of main
  via,                 \* how search_and_answer was reached: "all" or "use"
  probe,               \* what the connection tests of lines 418-422 found
                       \* for the last query
  served,              \* inputs read so far
  llm_reply,           \* what requests.post did in the last LLM call
  answer,              \* the value generate_answer_with_sources returned
  printed,             \* the answers printed so far (line 439)
  escaped,             \* the exception that left search_and_answer in the
                       \* last query, "none" if it returned
  document_path,       \* the argument of generate_collection_name
  safe_name,           \* the name it returns
  npc                  \* position in generate_collection_name

searchVars == <<listing, encode_ok, n_results, pc, collection_results,
                sorted_collections, k, selected_results, visited, result>>
splitVars == <<text, chunk_size, overlap, spc, start, chunk_id, chunks,
               metadata>>
indexVars == <<store, store_before, collection_name, response, ipc, n_chunks, batch_size,
               batch_i, chunk_j, total_processed, calls, returned>>
previewVars == <<content, content_preview, ppc>>
askVars == <<apc, via, probe, served, llm_reply, answer, printed, escaped>>
nameVars == <<document_path, safe_name, npc>>
vars == <<searchVars, splitVars, indexVars, previewVars, askVars, nameVars>>

\* the variables outside one part of the program
notSearchVars ==
  <<splitVars, indexVars, previewVars, askVars, nameVars>>
notSplitVars ==
  <<searchVars, indexVars, previewVars, askVars, nameVars>>
notIndexVars ==
  <<searchVars, splitVars, previewVars, askVars, nameVars>>
notPreviewVars ==
  <<searchVars, splitVars, indexVars, askVars, nameVars>>
notAskVars ==
  <<searchVars, splitVars, indexVars, previewVars, nameVars>>
notNameVars == <<searchVars, splitVars, indexVars, previewVars, askVars>>

\* --------------------------------------------------------------- helpers
Min2(a, b) == IF a <= b THEN a ELSE b
Min3(a, b, c) == Min2(a, Min2(b, c))

\* Python's s[:n] for n >= 0
Take_plus1(s, n) == SubSeq(s, 1, Min2(n + 1, Len(s)))
Take(s, n) == SubSeq(s, 1, Min2(n, Len(s)))

RECURSIVE SumSim(_)
SumSim(s) == IF s = <<>> THEN 0 ELSE Head(s).similarity + SumSim(Tail(s))

RECURSIVE MaxSim(_)
MaxSim(s) ==
  IF Len(s) = 1 THEN s[1].similarity
  ELSE LET m == MaxSim(Tail(s))
       IN IF s[1].similarity >= m THEN s[1].similarity ELSE m

\* what a collection's query can answer with m hits: the ascending
\* sequences of m distances
IsAscending(s) == \A i \in 1..(Len(s) - 1) : s[i] <= s[i + 1]

Responses(m) == {s \in [1..m -> DistValues] : IsAscending(s)}

NoneValue == [none |-> TRUE]
EmptyResults == [documents |-> <<>>, metadatas |-> <<>>, distances |-> <<>>]

\* ------------------------------------------------ the fan-out (105-153)
\* the metadata the store holds for a hit: none, or a dict, here one that
\* already has a collection_name entry, of no listed collection
StoredMetadata == {NoneValue, [collection_name |-> 0]}

\* lines 120-125 and 139-142: a dict gets its collection_name entry
\* overwritten, a missing metadata is replaced by a new dict
TagMetadata_keep(meta, name) ==
  IF meta = NoneValue THEN [collection_name |-> name] ELSE meta
TagMetadata(meta, name) ==
  IF meta = NoneValue THEN [collection_name |-> name]
  ELSE [meta EXCEPT !.collection_name = name]

\* one hit of collection c: lines 128-149
Hit(c, i) ==
  [document |-> <<c.name, i>>,
   metadata |-> TagMetadata(c.stored, c.name),
   distance |-> c.dists[i],
   similarity |-> Scale - c.dists[i]]

Survives_nofloor(h) == h.similarity >= 0
Survives(h) == h.similarity >= similarity_threshold

\* the hits one collection adds to collection_results; a collection whose
\* query raises, or answers no documents, adds none
CollectionHits(c) ==
  IF c.raises \/ c.dists = <<>> THEN <<>>
  ELSE SelectSeq([i \in 1..Len(c.dists) |-> Hit(c, i)], Survives)

RECURSIVE CollectAll(_)
CollectAll(cols) ==
  IF cols = <<>> THEN <<>>
  ELSE CollectionHits(Head(cols)) \o CollectAll(Tail(cols))

\* does an exception reach the outer handler of line 231
OuterRaises_uncaught(cols, ok) == ~ok \/ \E i \in 1..Len(cols) : cols[i].raises
OuterRaises(cols, ok) == ~ok

\* --------------------------------------- grouping and scoring (158-185)
RECURSIVE GroupNames(_)
GroupNames(cr) ==
  IF cr = <<>> THEN <<>>
  ELSE LET rest == GroupNames(SubSeq(cr, 1, Len(cr) - 1))
           nm == cr[Len(cr)].metadata.collection_name
       IN IF \E i \in 1..Len(rest) : rest[i] = nm THEN rest
          ELSE Append(rest, nm)

Group(cr, nm) == SelectSeq(cr, LAMBDA h : h.metadata.collection_name = nm)

\* score = 0.5*max + 0.5*sum/count = score_num / score_den
ScoreInfo(cr, nm) ==
  LET g == Group(cr, nm)
  IN [name |-> nm,
      score_num |-> MaxSim(g) * Len(g) + SumSim(g),
      score_den |-> 2 * Len(g),
      max_sim |-> MaxSim(g),
      sum_sim |-> SumSim(g),
      high_quality_count |->
        Len(SelectSeq(g, LAMBDA h : h.similarity >= HighQualityFloor)),
      count |-> Len(g)]

CollectionScores(cr) ==
  LET names == GroupNames(cr)
  IN [i \in 1..Len(names) |-> ScoreInfo(cr, names[i])]

ScoreGE(a, b) == a.score_num * b.score_den >= b.score_num * a.score_den
ScoreGT(a, b) == a.score_num * b.score_den > b.score_num * a.score_den
ScoreAtLeast(a, t) == a.score_num >= t * a.score_den

\* sorted(..., key=score, reverse=True): stable, equal scores keep their
\* order of insertion
RECURSIVE InsertByScore(_, _)
InsertByScore(s, e) ==
  IF s = <<>> THEN <<e>>
  ELSE IF ScoreGE(Head(s), e) THEN <<Head(s)>> \o InsertByScore(Tail(s), e)
  ELSE <<e>> \o s

RECURSIVE SortByScoreDesc(_)
SortByScoreDesc(s) ==
  IF s = <<>> THEN <<>>
  ELSE InsertByScore(SortByScoreDesc(SubSeq(s, 1, Len(s) - 1)), s[Len(s)])

SortedCollections_unsorted(cr) == CollectionScores(cr)
SortedCollections(cr) == SortByScoreDesc(CollectionScores(cr))

\* sorted(..., key=distance): stable
RECURSIVE InsertByDistance(_, _)
InsertByDistance(s, e) ==
  IF s = <<>> THEN <<e>>
  ELSE IF Head(s).distance <= e.distance
       THEN <<Head(s)>> \o InsertByDistance(Tail(s), e)
  ELSE <<e>> \o s

RECURSIVE SortByDistance(_)
SortByDistance(s) ==
  IF s = <<>> THEN <<>>
  ELSE InsertByDistance(SortByDistance(SubSeq(s, 1, Len(s) - 1)), s[Len(s)])

\* ------------------------------------------- the ranked walk (192-213)
TakeCount(info, remaining_slots) ==
  IF ScoreAtLeast(info, HighTierScore)
    THEN Min3(HighTierTake, remaining_slots, info.count)
  ELSE IF ScoreAtLeast(info, MidTierScore)
    THEN Min3(MidTierTake, remaining_slots, info.count)
  ELSE Min3(LowTierTake, remaining_slots, info.count)

QualityResults(sorted_hits) ==
  SelectSeq(sorted_hits, LAMBDA h : h.similarity >= QualityFloor)

\* what one iteration extends selected_results with (209-213)
Chosen_skipfirst(sorted_hits, take_count) ==
  IF QualityResults(sorted_hits) # <<>>
    THEN Take(Tail(QualityResults(sorted_hits)), take_count)
  ELSE Take(sorted_hits, Min2(1, Len(sorted_hits)))
Chosen_qualityonly(sorted_hits, take_count) ==
  Take(QualityResults(sorted_hits), take_count)
Chosen_all(sorted_hits, take_count) ==
  IF QualityResults(sorted_hits) # <<>> THEN QualityResults(sorted_hits)
  ELSE Take(sorted_hits, Min2(1, Len(sorted_hits)))
Chosen(sorted_hits, take_count) ==
  IF QualityResults(sorted_hits) # <<>>
    THEN Take(QualityResults(sorted_hits), take_count)
  ELSE Take(sorted_hits, Min2(1, Len(sorted_hits)))

\* remaining_slots <= 0: break (196-198)
LoopBreaks_never(sel, n) == FALSE
LoopBreaks(sel, n) == n - Len(sel) <= 0

RECURSIVE Walk(_, _, _, _)
Walk(cr, sc, sel, n) ==
  IF sc = <<>> \/ LoopBreaks(sel, n) THEN sel
  ELSE LET info == Head(sc)
           hits == SortByDistance(Group(cr, info.name))
       IN Walk(cr, Tail(sc),
               sel \o Chosen(hits, TakeCount(info, n - Len(sel))), n)

\* -------------------------------------------- the final result (216-229)
TopResults_unsorted(sel, n) == Take(sel, n)
TopResults(sel, n) == Take(SortByDistance(sel), n)

AllResults(top) ==
  [documents |-> [i \in 1..Len(top) |-> top[i].document],
   metadatas |-> [i \in 1..Len(top) |-> top[i].metadata],
   distances |-> [i \in 1..Len(top) |-> top[i].distance]]

\* search_documents as a function of its inputs (collection_name not given)
SearchDocuments(cols, ok, n) ==
  IF OuterRaises(cols, ok) THEN NoneValue
  ELSE LET cr == CollectAll(cols)
       IN IF cr = <<>> THEN EmptyResults
          ELSE AllResults(TopResults(Walk(cr, SortedCollections(cr), <<>>, n), n))

\* ===================================== split_text (document_manager.py)
Max2(a, b) == IF a >= b THEN a ELSE b

\* Python's t[a:b]: a negative index counts from the end, both are clamped
PyIndex(i, n) == IF i < 0 THEN Max2(i + n, 0) ELSE Min2(i, n)
Slice(t, a, b) == SubSeq(t, PyIndex(a, Len(t)) + 1, PyIndex(b, Len(t)))

\* str.rfind: the largest 0-based index of ch in s, -1 if there is none
Rfind(s, ch) ==
  LET at == {i \in 1..Len(s) : s[i] = ch}
  IN IF at = {} THEN -1 ELSE (CHOOSE i \in at : \A j \in at : j <= i) - 1

\* str.strip
Strip_none(s) == s
Strip_left(s) ==
  LET keep == {i \in 1..Len(s) : s[i] \notin Whitespace}
  IN IF keep = {} THEN <<>>
     ELSE SubSeq(s, CHOOSE i \in keep : \A j \in keep : i <= j, Len(s))
Strip(s) ==
  LET keep == {i \in 1..Len(s) : s[i] \notin Whitespace}
  IN IF keep = {} THEN <<>>
     ELSE SubSeq(s, CHOOSE i \in keep : \A j \in keep : i <= j,
                    CHOOSE i \in keep : \A j \in keep : j <= i)

\* "x > chunk_size * 0.7" (lines 101, 107, 113); in exact arithmetic, which
\* is what the float product gives for every chunk_size below 90
PastSeventyPercent(x, c) == 10 * x > 7 * c

\* line 93: the window reaches the end of the text
ReachesEnd(t, st, c) == st + c >= Len(t)

\* actual_end of a window that does not reach the end (lines 97-119)
ActualEnd_spacefirst(t, st, c) ==
  LET potential_chunk == Slice(t, st, st + c)
      last_period == Rfind(potential_chunk, ".")
      last_newline == Rfind(potential_chunk, "\n")
      last_space == Rfind(potential_chunk, " ")
  IN IF PastSeventyPercent(last_period, c) THEN st + last_period + 1
     ELSE IF PastSeventyPercent(last_space, c) THEN st + last_space
     ELSE IF PastSeventyPercent(last_newline, c) THEN st + last_newline
     ELSE st + c
ActualEnd(t, st, c) ==
  LET potential_chunk == Slice(t, st, st + c)
      last_period == Rfind(potential_chunk, ".")
      last_newline == Rfind(potential_chunk, "\n")
      last_space == Rfind(potential_chunk, " ")
  IN IF PastSeventyPercent(last_period, c) THEN st + last_period + 1
     ELSE IF PastSeventyPercent(last_newline, c) THEN st + last_newline
     ELSE IF PastSeventyPercent(last_space, c) THEN st + last_space
     ELSE st + c

\* chunk_text of the window at st (lines 94, 103, 109, 115, 118)
ChunkText(t, st, c) ==
  IF ReachesEnd(t, st, c) THEN Strip(Slice(t, st, Len(t)))
  ELSE Strip(Slice(t, st, ActualEnd(t, st, c)))

\* end_pos of line 126: actual_end is unset in the window reaching the end
EndPos_noclamp(t, st, c) ==
  IF ReachesEnd(t, st, c) THEN st + c ELSE ActualEnd(t, st, c)
EndPos(t, st, c) ==
  IF ReachesEnd(t, st, c) THEN Min2(st + c, Len(t))
  ELSE Min2(ActualEnd(t, st, c), Len(t))

\* lines 132-136
NextStart_nofloor(t, st, c, o) ==
  IF ReachesEnd(t, st, c) THEN st + c - o
  ELSE ActualEnd(t, st, c) - o
NextStart_twice(t, st, c, o) ==
  IF ReachesEnd(t, st, c) THEN st + c - o
  ELSE Max2(ActualEnd(t, st, c) - 2 * o, st + 1)
NextStart_pastcut(t, st, c, o) ==
  IF ReachesEnd(t, st, c) THEN st + c - o
  ELSE ActualEnd(t, st, c) + 1
NextStart(t, st, c, o) ==
  IF ReachesEnd(t, st, c) THEN st + c - o
  ELSE Max2(ActualEnd(t, st, c) - o, st + 1)

Texts == UNION { [1..m -> Chars] : m \in 0..MaxLen }

SplitIdle ==
  /\ text = <<>>
  /\ chunk_size = 2
  /\ overlap = 1
  /\ spc = "idle"
  /\ start = 0
  /\ chunk_id = 0
  /\ chunks = <<>>
  /\ metadata = <<>>

SearchIdle ==
  /\ listing = <<>>
  /\ encode_ok = TRUE
  /\ n_results = 0
  /\ pc = "idle"
  /\ collection_results = <<>>
  /\ sorted_collections = <<>>
  /\ k = 1
  /\ selected_results = <<>>
  /\ visited = <<>>
  /\ result = NoneValue

IndexIdle ==
  /\ store = [c \in {} |-> {}]
  /\ store_before = [c \in {} |-> {}]
  /\ collection_name = "c1"
  /\ response = <<>>
  /\ ipc = "idle"
  /\ n_chunks = 0
  /\ batch_size = 1
  /\ batch_i = 0
  /\ chunk_j = 0
  /\ total_processed = 0
  /\ calls = <<>>
  /\ returned = NoneValue

\* no call of requests.post yet
NoReply == [raises |-> "none", status |-> 0, json |-> FALSE, text |-> FALSE]

PreviewIdle ==
  /\ content = <<>>
  /\ content_preview = <<>>
  /\ ppc = "idle"

AskIdle ==
  /\ apc = "idle"
  /\ via = "all"
  /\ probe = "none"
  /\ served = 0
  /\ llm_reply = NoReply
  /\ answer = "none"
  /\ printed = <<>>
  /\ escaped = "none"

NameIdle ==
  /\ document_path = <<>>
  /\ safe_name = <<>>
  /\ npc = "idle"

NotSearchIdle ==
  SplitIdle /\ IndexIdle /\ PreviewIdle /\ AskIdle /\ NameIdle
NotSplitIdle ==
  SearchIdle /\ IndexIdle /\ PreviewIdle /\ AskIdle /\ NameIdle
NotIndexIdle ==
  SearchIdle /\ SplitIdle /\ PreviewIdle /\ AskIdle /\ NameIdle
NotPreviewIdle ==
  SearchIdle /\ SplitIdle /\ IndexIdle /\ AskIdle /\ NameIdle
NotAskIdle ==
  SearchIdle /\ SplitIdle /\ IndexIdle /\ PreviewIdle /\ NameIdle
NotNameIdle ==
  SearchIdle /\ SplitIdle /\ IndexIdle /\ PreviewIdle /\ AskIdle

\* split_text entered with its arguments (lines 84-87)
InitSplit ==
  /\ text \in Texts
  /\ chunk_size \in 2..MaxChunk
  /\ overlap \in 1..(chunk_size - 1)
  /\ spc = "loop"
  /\ start = 0
  /\ chunk_id = 0
  /\ chunks = <<>>
  /\ metadata = <<>>
  /\ NotSplitIdle

\* one iteration of the while loop (lines 89-136)
SplitStep ==
  /\ spc = "loop"
  /\ start < Len(text)
  /\ LET chunk_text == ChunkText(text, start, chunk_size)
     IN IF chunk_text # <<>>
          THEN /\ chunks' = Append(chunks, chunk_text)
               /\ metadata' = Append(metadata,
                                [chunk_id |-> chunk_id,
                                 start_pos |-> start,
                                 end_pos |-> EndPos(text, start, chunk_size),
                                 length |-> Len(chunk_text)])
               /\ chunk_id' = chunk_id + 1
          ELSE UNCHANGED <<chunks, metadata, chunk_id>>
  /\ start' = NextStart(text, start, chunk_size, overlap)
  /\ UNCHANGED <<text, chunk_size, overlap, spc>>
  /\ UNCHANGED notSplitVars

\* the loop condition fails: return chunks, metadata (line 138)
SplitReturn ==
  /\ spc = "loop"
  /\ ~(start < Len(text))
  /\ spc' = "done"
  /\ UNCHANGED <<text, chunk_size, overlap, start, chunk_id, chunks, metadata>>
  /\ UNCHANGED notSplitVars

NextSplit == SplitStep \/ SplitReturn

SpecSplit == InitSplit /\ [][NextSplit]_vars

\* split_text entered with overlap >= chunk_size, which nothing in lines
\* 77-87 rejects
InitSplitAnyOverlap ==
  /\ text \in UNION { [1..m -> Chars] : m \in 0..MaxLenAny }
  /\ chunk_size \in 2..MaxChunkAny
  /\ overlap \in chunk_size..(chunk_size + 1)
  /\ spc = "loop"
  /\ start = 0
  /\ chunk_id = 0
  /\ chunks = <<>>
  /\ metadata = <<>>
  /\ NotSplitIdle

\* the same iteration, followed for the first MaxEmit chunks of a scan
SplitStepCapped == chunk_id < MaxEmit /\ SplitStep

NextSplitAnyOverlap == SplitStepCapped \/ SplitReturn

SpecSplitAnyOverlap == InitSplitAnyOverlap /\ [][NextSplitAnyOverlap]_vars

\* ------------------------------------------------------------ the search
\* what a collection's query does: it raises, or answers with m hits
Answers(m) ==
  (IF m = 0 THEN { [raises |-> TRUE, dists |-> <<>>] } ELSE {}) \cup
  { [raises |-> FALSE, dists |-> d] : d \in Responses(m) }

RECURSIVE TotalHits(_)
TotalHits(cols) ==
  IF cols = <<>> THEN 0 ELSE Len(Head(cols).dists) + TotalHits(Tail(cols))

InitSearch ==
  /\ n_results \in 0..MaxN
  /\ listing = <<>>
  /\ encode_ok = TRUE
  /\ pc = "start"
  /\ collection_results = <<>>
  /\ sorted_collections = <<>>
  /\ k = 1
  /\ selected_results = <<>>
  /\ visited = <<>>
  /\ result = NoneValue
  /\ NotSearchIdle

\* the store holds one more collection (DocumentProcessor.create_collection
\* ran before the search), listed after the others; a is what its query
\* does for the embedding of this search: it raises or answers with at most
\* n_results hits; stored is the metadata its hits have in the store, of
\* the same kind in every collection of one store
AddCollection ==
  /\ pc = "start"
  /\ Len(listing) < MaxColls
  /\ \E m \in 0..Min2(n_results, MaxHits - TotalHits(listing)) :
       \E a \in Answers(m) :
         \E st \in (IF listing = <<>> THEN StoredMetadata
                     ELSE {listing[1].stored}) :
           listing' = Append(listing, [name |-> Len(listing) + 1,
                                       raises |-> a.raises, dists |-> a.dists,
                                       stored |-> st])
  /\ UNCHANGED <<encode_ok, n_results, pc, collection_results,
                 sorted_collections, k, selected_results, visited, result>>
  /\ UNCHANGED notSearchVars

\* lines 79-188: embed, fan out, group, score, rank
StartSearch ==
  /\ pc = "start"
  /\ encode_ok' \in BOOLEAN
  /\ IF OuterRaises(listing, encode_ok')
       THEN /\ pc' = "done"
            /\ result' = NoneValue
            /\ UNCHANGED <<collection_results, sorted_collections>>
       ELSE LET cr == CollectAll(listing)
            IN /\ collection_results' = cr
               /\ IF cr = <<>>
                    THEN /\ pc' = "done"
                         /\ result' = EmptyResults
                         /\ UNCHANGED sorted_collections
                    ELSE /\ pc' = "select"
                         /\ sorted_collections' = SortedCollections(cr)
                         /\ UNCHANGED result
  /\ UNCHANGED <<listing, n_results, k, selected_results, visited>>
  /\ UNCHANGED notSearchVars

\* one iteration of the loop of line 192 that does not break
SelectStep ==
  /\ pc = "select"
  /\ k <= Len(sorted_collections)
  /\ ~LoopBreaks(selected_results, n_results)
  /\ LET info == sorted_collections[k]
         hits == SortByDistance(Group(collection_results, info.name))
         remaining_slots == n_results - Len(selected_results)
         take_count == TakeCount(info, remaining_slots)
         chosen == Chosen(hits, take_count)
     IN /\ selected_results' = selected_results \o chosen
        /\ visited' = Append(visited,
                        [name |-> info.name,
                         remaining_slots |-> remaining_slots,
                         take_count |-> take_count,
                         taken |-> Len(chosen)])
  /\ k' = k + 1
  /\ UNCHANGED <<listing, encode_ok, n_results, pc, collection_results,
                 sorted_collections, result>>
  /\ UNCHANGED notSearchVars

\* the loop ends (exhausted, or the break of line 198); lines 216-229
FinishSearch ==
  /\ pc = "select"
  /\ k > Len(sorted_collections) \/ LoopBreaks(selected_results, n_results)
  /\ result' = AllResults(TopResults(selected_results, n_results))
  /\ pc' = "done"
  /\ UNCHANGED <<listing, encode_ok, n_results, collection_results,
                 sorted_collections, k, selected_results, visited>>
  /\ UNCHANGED notSearchVars

NextSearch == AddCollection \/ StartSearch \/ SelectStep \/ FinishSearch

SpecSearch == InitSearch /\ [][NextSearch]_vars

\* split_text entered with a chunk_size whose last two offsets both lie
\* past 70% of it, on a text of letters followed by any characters: the
\* first window ends in the first two of them
WideTexts ==
  { [x \in 1..(WideChunk - 2) |-> "a"] \o t :
      t \in UNION { [1..m -> Chars] : m \in 0..MaxSuffix } }

InitSplitWide ==
  /\ text \in WideTexts
  /\ chunk_size = WideChunk
  /\ overlap \in 1..(chunk_size - 1)
  /\ spc = "loop"
  /\ start = 0
  /\ chunk_id = 0
  /\ chunks = <<>>
  /\ metadata = <<>>
  /\ NotSplitIdle

SpecSplitWide == InitSplitWide /\ [][NextSplit]_vars

\* ============================ create_collection (document_manager.py)
\* the names a collection can have, and the document ingested
Names == {"c1", "c2"}
DocIdBase == "doc_txt"

\* the record ids of a collection built from an earlier document
OldRecords == {[doc_id_base |-> "old_txt", chunk |-> 0]}

\* what the user can type at the prompt of line 406
ConsoleInputs ==
  { <<"y">>, <<"Y">>, <<"y", "e", "s">>, <<"Y", "E", "S">>,
    <<" ", "y", " ">>, <<"n">>, <<"N">>, <<>>, <<"y", "e">>,
    <<"y", " ", "s">>, <<"n", "o">> }

\* str.lower on the characters of ConsoleInputs
LowerChar(ch) ==
  CASE ch = "Y" -> "y"
    [] ch = "E" -> "e"
    [] ch = "S" -> "s"
    [] ch = "N" -> "n"
    [] OTHER -> ch
Lower(sq) == [x \in 1..Len(sq) |-> LowerChar(sq[x])]

\* lines 406-407: input(...).strip().lower() in ['y', 'yes']
Confirmed_always(r) == TRUE
Confirmed(r) == Lower(Strip(r)) \in { <<"y">>, <<"y", "e", "s">> }

\* client.delete_collection and client.create_collection on the store
DeleteCollection(st, name) == [c \in (DOMAIN st) \ {name} |-> st[c]]
CreateCollection(st, name) ==
  [c \in (DOMAIN st) \cup {name} |-> IF c = name THEN {} ELSE st[c]]

\* line 451: len(chunks[batch_i:batch_i+batch_size])
CurrentBatchSize_full(n, a, b) == b
CurrentBatchSize(n, a, b) == Min2(b, n - a)

\* lines 460 and 495: f"{doc_id_base}_chunk_{i+j}"
ChunkId_inbatch(a, b) == [doc_id_base |-> DocIdBase, chunk |-> b]
ChunkId(a, b) == [doc_id_base |-> DocIdBase, chunk |-> a + b]

\* collection.add of the records ids, all or nothing
AddRecords(st, name, ids) == [st EXCEPT ![name] = @ \cup ids]

\* an attempt ends well, or its encode raises, or its add raises
Outcomes == {"ok", "encode_raises", "add_raises"}

\* lines 455-488: where a whole-batch attempt leads
AfterBatch_alwaysretry(outcome) == "retry"
AfterBatch_uncaught(outcome) == IF outcome = "ok" THEN "batch" ELSE "raised"
AfterBatch(outcome) == IF outcome = "ok" THEN "batch" ELSE "retry"

Stores ==
  UNION { [D -> {OldRecords}] : D \in SUBSET Names }

\* add_document entered (line 568), the settings read; store_before keeps
\* the store as it is at that moment
InitIndex ==
  /\ store \in Stores
  /\ store_before = store
  /\ collection_name \in Names
  /\ response = <<>>
  /\ ipc = "add"
  /\ n_chunks = 0
  /\ batch_size \in 1..MaxBatch
  /\ batch_i = 0
  /\ chunk_j = 0
  /\ total_processed = 0
  /\ calls = <<>>
  /\ returned = NoneValue
  /\ NotIndexIdle

\* lines 571-592: a missing file ends add_document with None, otherwise
\* create_collection is entered with the collection name
AddDocument ==
  /\ ipc = "add"
  /\ \E exists \in BOOLEAN :
       IF exists THEN ipc' = "start" ELSE ipc' = "nofile"
  /\ UNCHANGED <<store, store_before, collection_name, response, n_chunks,
                 batch_size, batch_i, chunk_j, total_processed, calls,
                 returned>>
  /\ UNCHANGED notIndexVars

\* lines 402-415: the overwrite prompt, then the new collection
ConfirmOverwrite ==
  /\ ipc = "start"
  /\ IF collection_name \in DOMAIN store
       THEN \E r \in ConsoleInputs :
              /\ response' = r
              /\ IF ~Confirmed(r)
                   THEN /\ returned' = NoneValue
                        /\ ipc' = "done"
                        /\ UNCHANGED store
                   ELSE /\ store' = CreateCollection(
                                      DeleteCollection(store, collection_name),
                                      collection_name)
                        /\ ipc' = "load"
                        /\ UNCHANGED returned
       ELSE /\ store' = CreateCollection(store, collection_name)
            /\ ipc' = "load"
            /\ UNCHANGED <<response, returned>>
  /\ UNCHANGED <<collection_name, n_chunks, batch_size, batch_i, chunk_j,
                 total_processed, calls>>
  /\ UNCHANGED store_before
  /\ UNCHANGED notIndexVars

\* lines 417-444: the document is read and split, or reading it raises
LoadAndSplit ==
  /\ ipc = "load"
  /\ \E ok \in BOOLEAN :
       IF ok
         THEN /\ \E n \in 0..MaxChunks : n_chunks' = n
              /\ ipc' = "batch"
         ELSE /\ ipc' = "raised"
              /\ UNCHANGED n_chunks
  /\ batch_i' = 0
  /\ total_processed' = 0
  /\ UNCHANGED <<store, collection_name, response, batch_size, chunk_j, calls,
                 returned>>
  /\ UNCHANGED store_before
  /\ UNCHANGED notIndexVars

\* lines 448-488: one whole-batch attempt
BatchAttempt ==
  /\ ipc = "batch"
  /\ batch_i < n_chunks
  /\ LET current_batch_size == CurrentBatchSize(n_chunks, batch_i, batch_size)
         batch_ids == {ChunkId(batch_i, b) : b \in 0..(current_batch_size - 1)}
     IN \E outcome \in Outcomes :
          /\ calls' = Append(calls, [kind |-> "batch", lo |-> batch_i,
                                     hi |-> batch_i + current_batch_size - 1,
                                     outcome |-> outcome])
          /\ ipc' = AfterBatch(outcome)
          /\ IF outcome = "ok"
               THEN /\ store' = AddRecords(store, collection_name, batch_ids)
                    /\ total_processed' = total_processed + current_batch_size
                    /\ batch_i' = batch_i + batch_size
               ELSE UNCHANGED <<store, total_processed, batch_i>>
  /\ chunk_j' = 0
  /\ UNCHANGED <<collection_name, response, n_chunks, batch_size, returned>>
  /\ UNCHANGED store_before
  /\ UNCHANGED notIndexVars

\* lines 489-516: one chunk of a failed batch on its own; after the last
\* one the for loop of line 448 moves to the next batch
RetryChunk ==
  /\ ipc = "retry"
  /\ \E outcome \in Outcomes :
       /\ calls' = Append(calls, [kind |-> "chunk", lo |-> batch_i + chunk_j, hi |-> batch_i + chunk_j,
                                  outcome |-> outcome])
       /\ IF outcome = "ok"
            THEN /\ store' = AddRecords(store, collection_name, {ChunkId(batch_i, chunk_j)})
                 /\ total_processed' = total_processed + 1
            ELSE UNCHANGED <<store, total_processed>>
  /\ IF chunk_j + 1 < CurrentBatchSize(n_chunks, batch_i, batch_size)
       THEN /\ chunk_j' = chunk_j + 1
            /\ UNCHANGED <<batch_i, ipc>>
       ELSE /\ chunk_j' = 0
            /\ batch_i' = batch_i + batch_size
            /\ ipc' = "batch"
  /\ UNCHANGED <<collection_name, response, n_chunks, batch_size, returned>>
  /\ UNCHANGED store_before
  /\ UNCHANGED notIndexVars

\* lines 518-527: the loop is over, the collection is returned
FinishIndex ==
  /\ ipc = "batch"
  /\ batch_i >= n_chunks
  /\ returned' = [collection |-> collection_name]
  /\ ipc' = "done"
  /\ UNCHANGED <<store, collection_name, response, n_chunks, batch_size, batch_i, chunk_j,
                 total_processed, calls>>
  /\ UNCHANGED store_before
  /\ UNCHANGED notIndexVars

NextIndex == AddDocument \/ ConfirmOverwrite \/ LoadAndSplit
               \/ BatchAttempt \/ RetryChunk \/ FinishIndex

SpecIndex == InitIndex /\ [][NextIndex]_vars

\* ================= the evidence preview (search_cli.py, lines 353-376)
Ellipsis == <<".", ".", ".">>

\* a content of the given length: letters, with a period, a space and a
\* newline at the 0-based positions p, s and n that fall inside it
ContentOf(len, p, s, n) ==
  [x \in 1..len |-> IF x - 1 = p THEN "."
                    ELSE IF x - 1 = s THEN " "
                    ELSE IF x - 1 = n THEN "\n"
                    ELSE "a"]

\* lengths and positions on both sides of every comparison of the preview
Near(x) == (x - Slack)..(x + Slack)
ContentLengths ==
  (0..Slack) \cup Near(cut_floor) \cup Near(preview_limit)
    \cup Near(preview_limit + cut_floor)
CutPositions ==
  {-1} \cup (0..Slack) \cup Near(cut_floor) \cup Near(preview_limit)

\* line 356: content[:150]
Truncated_whole(c) == c
Truncated(c) == Take(c, preview_limit)

\* lines 354-376
Preview(c) ==
  IF Len(c) > preview_limit
    THEN LET truncated == Truncated(c)
             last_period == Rfind(truncated, ".")
             last_space == Rfind(truncated, " ")
             last_newline == Rfind(truncated, "\n")
         IN IF last_period > cut_floor THEN Take(c, last_period + 1)
            ELSE IF last_space > cut_floor THEN Take(c, last_space) \o Ellipsis
            ELSE IF last_newline > cut_floor
              THEN Take(c, last_newline) \o Ellipsis
            ELSE truncated \o Ellipsis
    ELSE c

\* a hit of the search results reaches line 353
InitPreview ==
  /\ \E len \in ContentLengths : \E p, s, n \in CutPositions :
       content = ContentOf(len, p, s, n)
  /\ content_preview = <<>>
  /\ ppc = "start"
  /\ NotPreviewIdle

BuildPreview ==
  /\ ppc = "start"
  /\ content_preview' = Preview(content)
  /\ ppc' = "done"
  /\ UNCHANGED content
  /\ UNCHANGED notPreviewVars

NextPreview == BuildPreview

SpecPreview == InitPreview /\ [][NextPreview]_vars

\* ======================= the interactive loop (search_cli.py, 290-517)
\* the kinds of line typed at the prompt of line 480, as the if chain of
\* lines 482-511 tells them apart; "interrupt" is Ctrl-C at the prompt
Inputs == {"quit", "list", "help", "use", "use_malformed", "empty",
           "question", "interrupt"}

\* what requests.post (line 327) does: it raises, or it returns a response
\* with a status code, a body that parses as JSON or not, and a "response"
\* field that is non-empty or not
Statuses == {200, 204, 404, 500}
Exceptions == {"Timeout", "ConnectionError", "Exception", "KeyboardInterrupt"}
Replies ==
  { [raises |-> e, status |-> 0, json |-> FALSE, text |-> FALSE] :
      e \in Exceptions }
  \cup
  { [raises |-> "none", status |-> st, json |-> js, text |-> tx] :
      st \in Statuses, js \in BOOLEAN, tx \in BOOLEAN }

\* the except clauses of lines 392-403: KeyboardInterrupt is not an
\* Exception
Caught_fallbackonly(exc) == exc = "Exception"
Caught(exc) == exc \in {"Timeout", "ConnectionError", "Exception"}

ErrorMessage(exc) ==
  CASE exc = "Timeout" -> "timeout_message"
    [] exc = "ConnectionError" -> "connection_message"
    [] OTHER -> "unexpected_error_message"

\* generate_answer_with_sources (lines 290-403): the value it returns, or
\* the exception it lets through
GenerateAnswer(reply) ==
  IF reply.raises # "none"
    THEN IF Caught(reply.raises)
           THEN [raised |-> "none", value |-> ErrorMessage(reply.raises)]
           ELSE [raised |-> reply.raises, value |-> "none"]
  ELSE IF reply.status = 200
    THEN IF ~reply.json
           THEN [raised |-> "none", value |-> ErrorMessage("Exception")]
         ELSE IF reply.text
           THEN [raised |-> "none", value |-> "answer_with_sources"]
         ELSE [raised |-> "none", value |-> "apology_with_sources"]
  ELSE [raised |-> "none", value |-> "api_error_message"]

\* where an exception that reaches the loop leads: the bare except of line
\* 501 on the "use" path, lines 513-517 otherwise
AfterException(path, exc) ==
  IF path = "use" THEN "prompt"
  ELSE IF exc = "KeyboardInterrupt" THEN "exited"
  ELSE "prompt"

\* main has found collections and shows the prompt (lines 460-478)
InitAsk ==
  /\ apc = "prompt"
  /\ via = "all"
  /\ probe = "none"
  /\ served = 0
  /\ llm_reply = NoReply
  /\ answer = "none"
  /\ printed = <<>>
  /\ escaped = "none"
  /\ NotAskIdle

\* lines 480-511: one line is read and dispatched
ReadInput ==
  /\ apc = "prompt"
  /\ served < MaxInputs
  /\ served' = served + 1
  /\ \E line \in Inputs :
       CASE line \in {"quit", "interrupt"} ->
              apc' = "exited" /\ UNCHANGED via
         [] line \in {"list", "help", "use_malformed", "empty"} ->
              apc' = "prompt" /\ UNCHANGED via
         [] line = "use" ->
              \E known \in BOOLEAN :
                /\ apc' = IF known THEN "probe" ELSE "prompt"
                /\ via' = IF known THEN "use" ELSE via
         [] line = "question" ->
              apc' = "probe" /\ via' = "all"
  /\ UNCHANGED <<llm_reply, answer, printed, escaped>>
  /\ UNCHANGED probe
  /\ UNCHANGED notAskVars

\* _test_ollama_connection (lines 40-46): whether the GET answers 200; any
\* exception counts as no
TestOllamaConnection(status_ok, raised) == status_ok /\ ~raised

\* lines 418-422: the connection test, made a second time when the first
\* fails; whatever it finds, line 425 is next
ProbeOllama ==
  /\ apc = "probe"
  /\ \E ok1 \in BOOLEAN, raised1 \in BOOLEAN, ok2 \in BOOLEAN,
        raised2 \in BOOLEAN :
       probe' = IF TestOllamaConnection(ok1, raised1) THEN "up"
                ELSE IF TestOllamaConnection(ok2, raised2) THEN "up_on_retry"
                ELSE "down"
  /\ apc' = "search"
  /\ UNCHANGED <<via, served, llm_reply, answer, printed, escaped>>
  /\ UNCHANGED notAskVars

\* search_and_answer from the search to the LLM call (lines 424-434):
\* without a hit it returns
SearchForAnswer ==
  /\ apc = "search"
  /\ \E found \in BOOLEAN : apc' = IF found THEN "generate" ELSE "prompt"
  /\ escaped' = "none"
  /\ UNCHANGED <<via, served, llm_reply, answer, printed>>
  /\ UNCHANGED probe
  /\ UNCHANGED notAskVars

\* line 435: the LLM call
Generate ==
  /\ apc = "generate"
  /\ \E reply \in Replies :
       LET r == GenerateAnswer(reply)
       IN /\ llm_reply' = reply
          /\ answer' = r.value
          /\ escaped' = r.raised
          /\ apc' = IF r.raised = "none" THEN "print"
                    ELSE AfterException(via, r.raised)
  /\ UNCHANGED <<via, served, printed>>
  /\ UNCHANGED probe
  /\ UNCHANGED notAskVars

\* lines 437-440, then the loop of line 478 again
PrintAnswer ==
  /\ apc = "print"
  /\ printed' = Append(printed, answer)
  /\ apc' = "prompt"
  /\ UNCHANGED <<via, served, llm_reply, answer, escaped>>
  /\ UNCHANGED probe
  /\ UNCHANGED notAskVars

NextAsk == ReadInput \/ ProbeOllama \/ SearchForAnswer \/ Generate \/ PrintAnswer

SpecAsk == InitAsk /\ [][NextAsk]_vars

\* ============ generate_collection_name (document_manager.py, 560-566)
\* the characters of a path: a letter, a capital, a digit, the two
\* characters the name keeps besides those, the extension separator, a
\* space and the path separator
PathChars == {"a", "Z", "7", "-", "_", ".", " ", "/"}
Paths == UNION { [1..m -> PathChars] : m \in 0..MaxPath }

\* str.isalnum on the characters of PathChars
IsAlnum(ch) == ch \in {"a", "Z", "7"}

\* os.path.basename (posixpath): what follows the last "/"
Basename(p) == Slice(p, Rfind(p, "/") + 1, Len(p))

\* os.path.splitext (genericpath._splitext) on a name without "/": the
\* extension starts at the last dot, unless only dots come before it
RECURSIVE SkipLeadingDots(_, _, _)
SkipLeadingDots(p, filenameIndex, dotIndex) ==
  IF filenameIndex < dotIndex
    THEN IF p[filenameIndex + 1] # "."
           THEN <<Slice(p, 0, dotIndex), Slice(p, dotIndex, Len(p))>>
         ELSE SkipLeadingDots(p, filenameIndex + 1, dotIndex)
  ELSE <<p, <<>>>>

Splitext(p) ==
  LET sepIndex == Rfind(p, "/")
      dotIndex == Rfind(p, ".")
  IN IF dotIndex > sepIndex THEN SkipLeadingDots(p, sepIndex + 1, dotIndex)
     ELSE <<p, <<>>>>

\* line 565: c if c.isalnum() or c in '-_' else '_'
SafeChar_same(ch) == ch
SafeChar(ch) == IF IsAlnum(ch) \/ ch \in {"-", "_"} THEN ch ELSE "_"

GenerateCollectionName(p) ==
  LET doc_name == Basename(p)
      name_without_ext == Splitext(doc_name)[1]
  IN [x \in 1..Len(name_without_ext) |-> SafeChar(name_without_ext[x])]

\* generate_collection_name entered with a path
InitName ==
  /\ document_path \in Paths
  /\ safe_name = <<>>
  /\ npc = "call"
  /\ NotNameIdle

\* lines 562-566
GenerateName ==
  /\ npc = "call"
  /\ safe_name' = GenerateCollectionName(document_path)
  /\ npc' = "done"
  /\ UNCHANGED document_path
  /\ UNCHANGED notNameVars

NextName == GenerateName

SpecName == InitName /\ [][NextName]_vars

\* ================================================================ claims
Returned == pc = "done" /\ result # NoneValue

\* number of returned hits that carry collection name nm
CountFrom(res, nm) ==
  Cardinality({i \in 1..Len(res.metadatas) :
                 res.metadatas[i].collection_name = nm})

\* the hits of collection nm that passed the similarity threshold
Surviving(nm) ==
  SelectSeq(collection_results, LAMBDA h : h.metadata.collection_name = nm)

\* C1: a cross-collection search returns at most n_results hits, also when
\* the collections together answer with more than n_results candidates.
C1_OutputBounded ==
  Returned =>
    /\ Len(result.documents) <= n_results
    /\ Len(result.metadatas) = Len(result.documents)
    /\ Len(result.distances) = Len(result.documents)

C1_Witness ==
  /\ Returned
  /\ n_results >= 1
  /\ Len(collection_results) > n_results
  /\ Len(result.documents) = n_results

\* C2: the hits a collection has in the output never exceed its quota
\* min(tier, slots remaining when it is reached, its surviving hit count),
\* tier 3 / 2 / 1 for score >= 0.2 / >= 0.1 / below, score = 0.5*max +
\* 0.5*avg; a collection with no hit of similarity >= 0.05 gives exactly one.
TierOf(g) ==
  IF MaxSim(g) * Len(g) + SumSim(g) >= 2 * HighTierScore * Len(g) THEN 3
  ELSE IF MaxSim(g) * Len(g) + SumSim(g) >= 2 * MidTierScore * Len(g) THEN 2
  ELSE 1

RECURSIVE OutputOfFirst(_)
OutputOfFirst(i) ==
  IF i = 0 THEN 0
  ELSE CountFrom(result, visited[i].name) + OutputOfFirst(i - 1)

C2_QuotaRespected ==
  Returned =>
    \A i \in 1..Len(visited) :
      LET g == Surviving(visited[i].name)
          quota == Min3(TierOf(g), n_results - OutputOfFirst(i - 1), Len(g))
      IN /\ CountFrom(result, visited[i].name) <= quota
         /\ (\A j \in 1..Len(g) : g[j].similarity < QualityFloor)
              => CountFrom(result, visited[i].name) = 1

C2_Witness ==
  /\ Returned
  /\ \E i \in 1..Len(visited) :
       /\ Len(QualityResults(Surviving(visited[i].name))) >= 2
       /\ TierOf(Surviving(visited[i].name)) < n_results
       /\ CountFrom(result, visited[i].name)
            = TierOf(Surviving(visited[i].name))
  /\ \E i \in 1..Len(visited) :
       /\ \A j \in 1..Len(Surviving(visited[i].name)) :
            Surviving(visited[i].name)[j].similarity < QualityFloor
       /\ Len(Surviving(visited[i].name)) >= 2

\* C3: for n_results >= 1, whenever a hit survives the threshold the output
\* holds a hit of the globally smallest distance (the best match is never
\* crowded out by another collection).
C3_BestHitReturned ==
  (Returned /\ n_results >= 1 /\ collection_results # <<>>) =>
    \E i \in 1..Len(result.distances) :
      \A j \in 1..Len(collection_results) :
        result.distances[i] <= collection_results[j].distance

\* C4: a collection whose query raises is skipped: the search returns what
\* the same search over the healthy collections alone returns, and not None.
Healthy(cols) == SelectSeq(cols, LAMBDA c : ~c.raises)

C4_RaisingCollectionSkipped ==
  (pc = "done" /\ encode_ok) =>
    /\ result # NoneValue
    /\ result = SearchDocuments(Healthy(listing), encode_ok, n_results)

C4_Witness ==
  /\ Returned
  /\ \E i \in 1..Len(listing) : listing[i].raises
  /\ Len(result.documents) >= 1

\* C5: when no hit of any collection has similarity >= 0.01 (no collection
\* at all, or none answering documents, included) the search returns the
\* empty result, not None.
NoHitAboveThreshold ==
  \A i \in 1..Len(listing) :
    \A j \in 1..Len(listing[i].dists) :
      Scale - listing[i].dists[j] < similarity_threshold

C5_EmptyNotError ==
  (pc = "done" /\ encode_ok /\ NoHitAboveThreshold) => result = EmptyResults

C5_Witness ==
  /\ pc = "done"
  /\ encode_ok
  /\ NoHitAboveThreshold
  /\ \E i \in 1..Len(listing) : Len(listing[i].dists) >= 2
  /\ result = EmptyResults

\* C6: the returned hits are in non-decreasing order of distance, whatever
\* collection each came from.
C6_OutputSortedByDistance ==
  Returned =>
    \A i \in 1..Len(result.distances) : \A j \in i..Len(result.distances) :
      result.distances[i] <= result.distances[j]

C6_Witness ==
  /\ Returned
  /\ Len(result.distances) >= 2
  /\ \E i \in 1..(Len(selected_results) - 1) :
       /\ selected_results[i].distance > selected_results[i + 1].distance
       /\ selected_results[i].metadata.collection_name
            # selected_results[i + 1].metadata.collection_name

\* C7 (as stated): the output is the same for every order in which the store
\* lists the collections, ties of score included.
Permute(cols, p) == [i \in 1..Len(cols) |-> cols[p[i]]]

SameForEveryListingOrder ==
  \A p \in Permutations(1..Len(listing)) :
    SearchDocuments(Permute(listing, p), encode_ok, n_results) = result

C7_ListingOrderIrrelevant == pc = "done" => SameForEveryListingOrder

\* C7 (amended): the output is the same for every listing order provided no
\* two collections with surviving hits have equal scores.
DistinctScores ==
  LET sc == CollectionScores(collection_results)
  IN \A i \in 1..Len(sc) : \A j \in 1..Len(sc) :
       i # j => (ScoreGT(sc[i], sc[j]) \/ ScoreGT(sc[j], sc[i]))

C7_ListingOrderIrrelevantDistinctScores ==
  (pc = "done" /\ DistinctScores) => SameForEveryListingOrder

C7_Witness ==
  /\ Returned
  /\ DistinctScores
  /\ Len(visited) >= 2
  /\ visited[1].name > visited[2].name
  /\ \E i \in 1..(Len(result.distances) - 1) :
       /\ result.distances[i] = result.distances[i + 1]
       /\ result.metadatas[i] # result.metadatas[i + 1]

\* C8: collections are served in descending score order and, once the
\* selected hits reach n_results, no lower-ranked collection contributes;
\* with n_results = 3 and a top collection of score >= 0.2 holding 3 hits of
\* similarity >= 0.05, all 3 returned hits are that collection's.
RECURSIVE SelectedOfFirst(_)
SelectedOfFirst(i) ==
  IF i = 0 THEN 0
  ELSE Len(SelectSeq(selected_results,
             LAMBDA h : h.metadata.collection_name = sorted_collections[i].name))
       + SelectedOfFirst(i - 1)

C8_RankedWalkStopsWhenFull ==
  (pc \in {"select", "done"} /\ collection_results # <<>>) =>
    /\ \A i \in 1..Len(sorted_collections) :
         \A j \in (i + 1)..Len(sorted_collections) :
           LET gi == Surviving(sorted_collections[i].name)
               gj == Surviving(sorted_collections[j].name)
           IN (MaxSim(gi) * Len(gi) + SumSim(gi)) * Len(gj)
                >= (MaxSim(gj) * Len(gj) + SumSim(gj)) * Len(gi)
    /\ \A i \in 1..Len(visited) : visited[i].name = sorted_collections[i].name
    /\ \A j \in 1..Len(sorted_collections) :
         SelectedOfFirst(j - 1) >= n_results
           => SelectedOfFirst(j) = SelectedOfFirst(j - 1)
    /\ (/\ pc = "done"
        /\ n_results = 3
        /\ TierOf(Surviving(sorted_collections[1].name)) = 3
        /\ Len(QualityResults(Surviving(sorted_collections[1].name))) >= 3)
         => CountFrom(result, sorted_collections[1].name) = 3

C8_Witness ==
  /\ Returned
  /\ n_results = 3
  /\ Len(sorted_collections) >= 2
  /\ TierOf(Surviving(sorted_collections[1].name)) = 3
  /\ Len(QualityResults(Surviving(sorted_collections[1].name))) >= 3
  /\ TierOf(Surviving(sorted_collections[2].name)) = 2
  /\ CountFrom(result, sorted_collections[1].name) = 3
  /\ CountFrom(result, sorted_collections[2].name) = 0

\* C9: with 0 < overlap < chunk_size every iteration of the scan strictly
\* increases start while start < len(text), the loop's only condition (so
\* len(text) - start is a variant and the scan terminates), and the
\* start_pos of the emitted chunks are strictly increasing.
ValidParams == 0 < overlap /\ overlap < chunk_size

StartPosIncreasing ==
  \A i \in 1..(Len(metadata) - 1) :
    metadata[i].start_pos < metadata[i + 1].start_pos

C9_ScanProgresses ==
  /\ [][(ValidParams /\ spc = "loop" /\ start < Len(text))
          => (start' > start /\ spc' = "loop")]_vars
  /\ [][(ValidParams /\ spc = "loop" /\ start >= Len(text))
          => spc' = "done"]_vars
  /\ [](ValidParams => (StartPosIncreasing /\ start >= 0))

C9_Witness ==
  /\ spc = "done"
  /\ ValidParams
  /\ Len(metadata) >= 3
  /\ \E i \in 1..(Len(metadata) - 1) :
       /\ metadata[i].end_pos - overlap <= metadata[i].start_pos
       /\ metadata[i + 1].start_pos = metadata[i].start_pos + 1

\* C10: a window yields a chunk exactly when its text has a character that
\* is not whitespace; no emitted chunk is empty or whitespace-only; the
\* chunk_id of the i-th emitted chunk is i - 1; empty text gives no chunk.
WindowSpan(t, st, c) ==
  IF ReachesEnd(t, st, c) THEN Slice(t, st, Len(t))
  ELSE Slice(t, st, ActualEnd(t, st, c))

HasText(w) == \E i \in 1..Len(w) : w[i] \notin Whitespace

ChunksWellFormed ==
  /\ Len(metadata) = Len(chunks)
  /\ chunk_id = Len(chunks)
  /\ \A i \in 1..Len(chunks) :
       /\ chunks[i] # <<>>
       /\ HasText(chunks[i])
       /\ chunks[i][1] \notin Whitespace
       /\ chunks[i][Len(chunks[i])] \notin Whitespace
       /\ metadata[i].chunk_id = i - 1
  /\ (text = <<>> /\ spc = "done") => chunks = <<>>

C10_NonEmptySequentialChunks ==
  /\ []ChunksWellFormed
  /\ [][(spc = "loop" /\ start < Len(text)) =>
          Len(chunks') = Len(chunks)
            + (IF HasText(WindowSpan(text, start, chunk_size)) THEN 1 ELSE 0)]_vars

C10_Witness ==
  /\ spc = "done"
  /\ Len(chunks) >= 2
  /\ \E i \in 1..(Len(metadata) - 1) :
       metadata[i + 1].start_pos
         > NextStart(text, metadata[i].start_pos, chunk_size, overlap)
  /\ \E i \in 1..Len(chunks) :
       Len(chunks[i]) < metadata[i].end_pos - metadata[i].start_pos

\* C11: with 0 < overlap < chunk_size every emitted chunk's metadata has
\* 0 <= start_pos < end_pos <= len(text).
C11_SpanWithinText ==
  ValidParams =>
    \A i \in 1..Len(metadata) :
      /\ 0 <= metadata[i].start_pos
      /\ metadata[i].start_pos < metadata[i].end_pos
      /\ metadata[i].end_pos <= Len(text)

C11_Witness ==
  /\ spc = "done"
  /\ ValidParams
  /\ Len(metadata) >= 2
  /\ metadata[1].end_pos < metadata[1].start_pos + chunk_size
  /\ metadata[1].end_pos < Len(text)
  /\ LET last == metadata[Len(metadata)]
     IN /\ last.end_pos = Len(text)
        /\ last.start_pos + chunk_size > Len(text)

\* C12: with 0 < overlap < chunk_size the spans [start_pos, end_pos) of the
\* emitted chunks cover the text: every position (0-based) holding a
\* character that is not whitespace lies in the span of an emitted chunk,
\* for the positions the scan has passed and, at return, for all of them.
Covered(p) ==
  \E i \in 1..Len(metadata) :
    metadata[i].start_pos <= p /\ p < metadata[i].end_pos

C12_SpansCoverText ==
  ValidParams =>
    \A p \in 0..(Len(text) - 1) :
      (text[p + 1] \notin Whitespace /\ (spc = "done" \/ p < start))
        => Covered(p)

C12_Witness ==
  /\ spc = "done"
  /\ ValidParams
  /\ Len(metadata) >= 2
  /\ \E p \in 0..(Len(text) - 1) : text[p + 1] \in Whitespace /\ ~Covered(p)
  /\ \E p \in 0..(Len(text) - 1) :
       /\ text[p + 1] \notin Whitespace
       /\ \E i \in 1..(Len(metadata) - 1) :
            /\ metadata[i].start_pos <= p /\ p < metadata[i].end_pos
            /\ metadata[i + 1].start_pos <= p /\ p < metadata[i + 1].end_pos

\* C13: once the window [start, start + chunk_size) reaches the end of the
\* text, the scan ends after that iteration (start is then at or past
\* len(text)), and no chunk is emitted after a chunk whose window reached
\* the end of the text.
TailEmitted(i) == ReachesEnd(text, metadata[i].start_pos, chunk_size)

C13_TailIsFinalChunk ==
  /\ [][(ValidParams /\ spc = "loop" /\ start < Len(text)
           /\ ReachesEnd(text, start, chunk_size))
          => start' >= Len(text)]_vars
  /\ [](ValidParams =>
         \A i \in 1..(Len(metadata) - 1) : ~TailEmitted(i))

\* C14: a call with overlap >= chunk_size on a non-empty text is rejected:
\* it produces no chunk, and the scan cannot run forever, that is, every
\* iteration moves start forward.
InvalidParams == overlap >= chunk_size /\ text # <<>>

C14_InvalidOverlapRejected ==
  /\ [](InvalidParams => chunks = <<>>)
  /\ [][(InvalidParams /\ spc = "loop" /\ start < Len(text))
          => start' > start]_vars

\* C15: whatever encode and add attempts fail, total_processed is the
\* number of records in the collection all through the indexing loop, and
\* at the end of create_collection it is the number of chunks minus those
\* whose individual retry also failed.
Indexing == ipc \in {"batch", "retry"} \/ (ipc = "done" /\ returned # NoneValue)

RetryFailed ==
  {c \in 0..(n_chunks - 1) :
     \E x \in 1..Len(calls) :
       calls[x].kind = "chunk" /\ calls[x].lo = c /\ calls[x].outcome # "ok"}

C15_TotalIsRecordCount ==
  /\ Indexing => total_processed = Cardinality(store[collection_name])
  /\ (ipc = "done" /\ returned # NoneValue) =>
       total_processed = n_chunks - Cardinality(RetryFailed)

C15_Witness ==
  /\ ipc = "done"
  /\ returned # NoneValue
  /\ n_chunks = 4
  /\ total_processed = 3
  /\ \E x \in 1..Len(calls) : calls[x].kind = "batch" /\ calls[x].outcome = "ok"
  /\ \E x \in 1..Len(calls) :
       calls[x].kind = "batch" /\ calls[x].outcome = "add_raises"
  /\ \E x \in 1..Len(calls) : calls[x].kind = "chunk" /\ calls[x].outcome = "ok"
  /\ \E x \in 1..Len(calls) :
       calls[x].kind = "chunk" /\ calls[x].outcome = "encode_raises"

\* C16: no failed encode or add, of a batch or of a single chunk, leaves
\* the indexing loop: from inside the loop the next position is inside the
\* loop or the normal end, every step moves the loop forward, and whatever
\* failed before, every batch is attempted once as a whole batch, before
\* any of its chunks is tried alone.
InLoop == ipc \in {"batch", "retry"}

BatchStarts == {a \in 0..(n_chunks - 1) : a % batch_size = 0}

WholeBatchFirst ==
  /\ \A x \in 1..Len(calls) :
       calls[x].kind = "chunk" =>
         \E y \in 1..(x - 1) :
           /\ calls[y].kind = "batch"
           /\ calls[y].outcome # "ok"
           /\ calls[y].lo <= calls[x].lo /\ calls[x].lo <= calls[y].hi
  /\ \A a \in BatchStarts :
       (a < batch_i \/ (ipc = "done" /\ returned # NoneValue)) =>
         Cardinality({x \in 1..Len(calls) :
                        calls[x].kind = "batch" /\ calls[x].lo = a}) = 1

C16_FailuresStayInLoop ==
  /\ [][InLoop =>
          /\ ipc' \in {"batch", "retry", "done"}
          /\ \/ ipc' = "done" /\ batch_i >= n_chunks
             \/ batch_i' > batch_i
             \/ batch_i' = batch_i /\ ipc = "batch" /\ ipc' = "retry"
             \/ batch_i' = batch_i /\ chunk_j' > chunk_j]_vars
  /\ [](Indexing => WholeBatchFirst)

C16_Witness ==
  /\ ipc = "done"
  /\ returned # NoneValue
  /\ Len(calls) >= 4
  /\ calls[1].kind = "batch" /\ calls[1].outcome = "encode_raises"
  /\ \E x \in 1..Len(calls) : calls[x].kind = "chunk" /\ calls[x].outcome = "add_raises"
  /\ \E x \in 1..Len(calls) : calls[x].kind = "chunk" /\ calls[x].outcome = "encode_raises"
  /\ \E x \in 1..Len(calls) :
       calls[x].kind = "batch" /\ calls[x].lo > 0 /\ calls[x].outcome = "add_raises"

\* C17: when exactly one chunk is bad, that is, every attempt that
\* includes it fails and every attempt that does not succeeds, then at the
\* end every other chunk is a record of the collection, under its own id,
\* and total_processed is the number of chunks minus one.
OnlyBad(b) ==
  \A x \in 1..Len(calls) :
    (calls[x].outcome # "ok") <=> (calls[x].lo <= b /\ b <= calls[x].hi)

C17_OneBadChunkOneLoss ==
  (ipc = "done" /\ returned # NoneValue) =>
    \A b \in 0..(n_chunks - 1) :
      OnlyBad(b) =>
        /\ store[collection_name] =
             {[doc_id_base |-> DocIdBase, chunk |-> c] :
                c \in (0..(n_chunks - 1)) \ {b}}
        /\ total_processed = n_chunks - 1

C17_Witness ==
  /\ ipc = "done"
  /\ returned # NoneValue
  /\ n_chunks = 4
  /\ batch_size = 2
  /\ OnlyBad(3)
  /\ Len(calls) = 4
  /\ calls[3].kind = "chunk" /\ calls[3].outcome = "ok"
  /\ total_processed = 3

\* C20 as stated: when the name already exists, the collection is deleted
\* only after the answer 'y' or 'yes'; on any other answer the call returns
\* None and the store is unchanged.
AtPrompt == ipc = "start" /\ collection_name \in DOMAIN store

Refused == returned' = NoneValue /\ ipc' = "done" /\ store' = store

C20_OverwriteOnlyOnYes ==
  [][(AtPrompt /\ response' \notin { <<"y">>, <<"y", "e", "s">> })
       => Refused]_vars

\* C20, amended: when the name already exists, the collection is deleted
\* only after an answer that is 'y' or 'yes' once its surrounding whitespace
\* is removed and its letters are lower-cased; on any other answer the call
\* returns None and every collection of the store, the existing one and its
\* records included, is unchanged, then and for the rest of the call.
C20_OverwriteOnlyOnNormalizedYes ==
  /\ [][(AtPrompt /\ Lower(Strip(response')) \notin { <<"y">>, <<"y", "e", "s">> })
          => Refused]_vars
  /\ [][(ipc = "done" /\ returned = NoneValue) => store' = store]_vars

C20_Witness ==
  /\ ipc = "done"
  /\ returned = NoneValue
  /\ response = <<"y", "e">>
  /\ DOMAIN store = Names
  /\ \A c \in Names : store[c] = OldRecords

\* C18: the evidence preview is never longer than 153 characters when the
\* content is longer than 150 characters, and it is exactly the content
\* when the content has 150 characters or fewer.
C18_PreviewBounded ==
  ppc = "done" =>
    /\ Len(content) > 150 => Len(content_preview) <= 153
    /\ Len(content) <= 150 => content_preview = content

C18_Witness ==
  /\ ppc = "done"
  /\ Len(content) = 151
  /\ Len(content_preview) = 153
  /\ Rfind(content, ".") = 100

\* C19: a timeout, a connection error or a non-2xx status of the LLM call
\* becomes a descriptive message that generate_answer_with_sources returns;
\* no exception leaves it or search_and_answer, the message is printed, and
\* the interactive loop is back at its prompt, where the next line is read.
LLMFailed(reply) ==
  \/ reply.raises \in {"Timeout", "ConnectionError"}
  \/ reply.raises = "none" /\ (reply.status < 200 \/ reply.status > 299)

MessageFor(reply) ==
  IF reply.raises = "Timeout" THEN "timeout_message"
  ELSE IF reply.raises = "ConnectionError" THEN "connection_message"
  ELSE "api_error_message"

C19_LLMFailureBecomesMessage ==
  /\ [][(apc = "generate" /\ LLMFailed(llm_reply'))
          => /\ answer' = MessageFor(llm_reply')
             /\ escaped' = "none"
             /\ apc' = "print"]_vars
  /\ [][apc = "print"
          => apc' = "prompt" /\ printed' = Append(printed, answer)]_vars
  /\ []((apc = "prompt" /\ served < MaxInputs) => ENABLED ReadInput)

C19_Witness ==
  /\ Len(printed) = 3
  /\ printed[1] = "timeout_message"
  /\ printed[2] = "api_error_message"
  /\ printed[3] = "answer_with_sources"
  /\ apc = "prompt"

\* C22: for a window that does not reach the end of the text the chunk ends
\* just after the last '.' of the window when its offset is past 70% of
\* chunk_size, else at the last newline when its offset is, else at the
\* last space when its offset is, else at start + chunk_size; so the span
\* of such a chunk is more than 70% of chunk_size and at most chunk_size.
LastOffset(s, ch) ==
  LET at == {o \in 0..(chunk_size - 1) : text[s + o + 1] = ch}
  IN IF at = {} THEN -1 ELSE CHOOSE o \in at : \A q \in at : q <= o

PriorityCut(s) ==
  IF 10 * LastOffset(s, ".") > 7 * chunk_size THEN s + LastOffset(s, ".") + 1
  ELSE IF 10 * LastOffset(s, "\n") > 7 * chunk_size
    THEN s + LastOffset(s, "\n")
  ELSE IF 10 * LastOffset(s, " ") > 7 * chunk_size THEN s + LastOffset(s, " ")
  ELSE s + chunk_size

InnerWindow(x) == metadata[x].start_pos + chunk_size < Len(text)

C22_CutPriority ==
  \A x \in 1..Len(metadata) :
    InnerWindow(x) =>
      /\ metadata[x].end_pos = PriorityCut(metadata[x].start_pos)
      /\ 10 * (metadata[x].end_pos - metadata[x].start_pos) > 7 * chunk_size
      /\ metadata[x].end_pos - metadata[x].start_pos <= chunk_size

C22_Witness ==
  /\ spc = "done"
  /\ Len(metadata) >= 2
  /\ InnerWindow(1)
  /\ LastOffset(0, "\n") = chunk_size - 2
  /\ LastOffset(0, " ") = chunk_size - 1
  /\ metadata[1].end_pos = chunk_size - 2
  /\ \E x \in 2..Len(metadata) :
       InnerWindow(x) /\ metadata[x].end_pos = metadata[x].start_pos + chunk_size

\* C23: with 0 < overlap < chunk_size, after a window that starts at s and
\* is cut at c the next window starts at max(c - overlap, s + 1); and of two
\* consecutive emitted chunks the later starts no earlier than the end_pos
\* of the earlier minus overlap, so they share at most overlap characters.
C23_NextStartAndOverlap ==
  /\ [][(ValidParams /\ spc = "loop" /\ start + chunk_size < Len(text))
          => start' = Max2(PriorityCut(start) - overlap, start + 1)]_vars
  /\ [](ValidParams =>
         \A x \in 1..(Len(metadata) - 1) :
           metadata[x + 1].start_pos >= metadata[x].end_pos - overlap)

C23_Witness ==
  /\ spc = "done"
  /\ ValidParams
  /\ Len(metadata) >= 3
  /\ InnerWindow(1)
  /\ PriorityCut(0) - overlap < 1
  /\ metadata[2].start_pos = 1
  /\ \E x \in 2..(Len(metadata) - 1) :
       metadata[x + 1].start_pos = metadata[x].end_pos - overlap

\* C24: every emitted chunk is the substring text[start_pos:end_pos] without
\* its leading and trailing whitespace, its metadata length is the length
\* of the chunk text, and length <= end_pos - start_pos <= chunk_size.
IsTrimmedSpan(c, lo, hi) ==
  \E a, b \in lo..(hi - 1) :
    /\ a <= b
    /\ c = SubSeq(text, a + 1, b + 1)
    /\ text[a + 1] \notin Whitespace
    /\ text[b + 1] \notin Whitespace
    /\ \A p \in lo..(hi - 1) : (p < a \/ p > b) => text[p + 1] \in Whitespace

C24_ChunkIsTrimmedSpan ==
  \A x \in 1..Len(metadata) :
    /\ IsTrimmedSpan(chunks[x], metadata[x].start_pos, metadata[x].end_pos)
    /\ metadata[x].length = Len(chunks[x])
    /\ metadata[x].length <= metadata[x].end_pos - metadata[x].start_pos
    /\ metadata[x].end_pos - metadata[x].start_pos <= chunk_size

C24_Witness ==
  /\ spc = "done"
  /\ \E x \in 1..Len(metadata) :
       /\ text[metadata[x].start_pos + 1] \in Whitespace
       /\ text[metadata[x].end_pos] \in Whitespace
       /\ metadata[x].length = 2
       /\ metadata[x].end_pos - metadata[x].start_pos = chunk_size

\* C25: a collection with a surviving hit is never silently dropped while
\* slots remain: every collection the ranked walk reaches with a free slot
\* has at least one hit in the output, its best one, also when none of its
\* hits has similarity >= 0.05; so when a collection contributes, every
\* collection of strictly higher score contributes too, and for
\* n_results >= 1 the output is non-empty whenever a hit survived.
BestOf(nm) == SortByDistance(Surviving(nm))[1]

InOutput(h) == \E x \in 1..Len(result.documents) : result.documents[x] = h.document

C25_NoCollectionDropped ==
  Returned =>
    /\ \A x \in 1..Len(visited) :
         visited[x].remaining_slots >= 1 =>
           /\ CountFrom(result, visited[x].name) >= 1
           /\ InOutput(BestOf(visited[x].name))
    /\ \A a \in 1..Len(sorted_collections) :
         \A b \in 1..Len(sorted_collections) :
           ( /\ CountFrom(result, sorted_collections[b].name) >= 1
             /\ ScoreGT(sorted_collections[a], sorted_collections[b]) )
             => CountFrom(result, sorted_collections[a].name) >= 1
    /\ (n_results >= 1 /\ collection_results # <<>>)
         => Len(result.documents) >= 1

\* two collections contribute; the lower-scored one has no hit of
\* similarity >= 0.05 and gives its best hit through the fallback
C25_Witness ==
  /\ Returned
  /\ Len(sorted_collections) = 2
  /\ ScoreGT(sorted_collections[1], sorted_collections[2])
  /\ QualityResults(Surviving(sorted_collections[2].name)) = <<>>
  /\ Len(Surviving(sorted_collections[2].name)) >= 2
  /\ CountFrom(result, sorted_collections[1].name) >= 1
  /\ CountFrom(result, sorted_collections[2].name) = 1

\* C26: every returned hit has similarity = 1 - distance of at least 0.01,
\* the hit a collection gives through the single-hit fallback included; a
\* hit of similarity exactly 0.01 passes the filter and one below 0.01
\* never does; the metadata of every returned hit carries the name of the
\* collection the hit came from.
C26_FloorAndCollectionName ==
  /\ (pc # "start" /\ ~OuterRaises(listing, encode_ok)) =>
       \A x \in 1..Len(listing) :
         \A y \in 1..Len(listing[x].dists) :
           (~listing[x].raises /\ Scale - listing[x].dists[y] >= similarity_threshold)
             <=> (\E z \in 1..Len(collection_results) :
                    collection_results[z].document = <<listing[x].name, y>>)
  /\ Returned =>
       \A x \in 1..Len(result.documents) :
         /\ Scale - result.distances[x] >= similarity_threshold
         /\ result.metadatas[x].collection_name = result.documents[x][1]
         /\ result.distances[x] =
              listing[result.documents[x][1]].dists[result.documents[x][2]]

\* a returned hit of similarity exactly 0.01, taken through the fallback,
\* whose stored metadata had another collection_name; a hit of similarity 0
\* of the same collection was filtered out
C26_Witness ==
  /\ Returned
  /\ \E x \in 1..Len(result.documents) :
       LET c == listing[result.documents[x][1]]
       IN /\ Scale - result.distances[x] = similarity_threshold
          /\ QualityResults(Surviving(c.name)) = <<>>
          /\ c.stored # NoneValue
          /\ \E y \in 1..Len(c.dists) : c.dists[y] = Scale

\* C30: within each collection the hits are selected best-first: when a
\* hit of a collection is in the output, every surviving hit of that
\* collection with a strictly smaller distance is in the output too.
C30_BestFirstPrefix ==
  Returned =>
    \A x \in 1..Len(result.documents) :
      \A z \in 1..Len(collection_results) :
        ( /\ collection_results[z].metadata.collection_name
               = result.metadatas[x].collection_name
          /\ collection_results[z].distance < result.distances[x] )
          => InOutput(collection_results[z])

\* a collection with three surviving hits of distinct distances has the two
\* nearest in the output and the third left out
C30_Witness ==
  /\ Returned
  /\ \E nm \in 1..Len(listing) :
       LET g == SortByDistance(Surviving(nm))
       IN /\ Len(g) = 3
          /\ g[1].distance < g[2].distance
          /\ g[2].distance < g[3].distance
          /\ InOutput(g[1])
          /\ InOutput(g[2])
          /\ ~InOutput(g[3])

\* C27: every batch gets exactly one whole-batch attempt; a chunk is
\* embedded and written on its own only if the whole-batch attempt that
\* contained it failed; the per-chunk pass over a failed batch is finished
\* before the next batch is attempted; no chunk is successfully written
\* more than once.
BatchCalls == {p \in 1..Len(calls) : calls[p].kind = "batch"}
ChunkCalls == {p \in 1..Len(calls) : calls[p].kind = "chunk"}

\* the whole-batch attempt a per-chunk attempt belongs to: the last one
\* before it
BatchOf(p) == CHOOSE q \in 1..(p - 1) :
                /\ calls[q].kind = "batch"
                /\ \A q2 \in (q + 1)..(p - 1) : calls[q2].kind = "chunk"

C27_BatchThenPerChunk ==
  /\ \A p \in BatchCalls :
       /\ calls[p].lo \in BatchStarts
       /\ \A q \in BatchCalls : calls[p].lo = calls[q].lo => p = q
       /\ p > 1 =>
            \/ calls[p - 1].kind = "batch" /\ calls[p - 1].outcome = "ok"
            \/ /\ calls[p - 1].kind = "chunk"
               /\ calls[p - 1].lo = calls[BatchOf(p - 1)].hi
  /\ (ipc = "done" /\ returned # NoneValue) =>
       \A a \in BatchStarts : \E p \in BatchCalls : calls[p].lo = a
  /\ \A p \in ChunkCalls :
       /\ calls[1].kind = "batch"
       /\ LET q == BatchOf(p)
          IN /\ calls[q].outcome # "ok"
             /\ calls[p].lo = calls[q].lo + (p - q - 1)
             /\ calls[p].lo <= calls[q].hi
  /\ \A p \in 1..Len(calls) : \A q \in (p + 1)..Len(calls) :
       (calls[p].outcome = "ok" /\ calls[q].outcome = "ok")
         => calls[p].hi < calls[q].lo
  /\ (ipc \in {"batch", "retry"} \/ (ipc = "done" /\ returned # NoneValue)) =>
       Cardinality(store[collection_name]) = total_processed

\* a batch of two chunks failed as a whole, one of its chunks was written
\* on its own and the other skipped, and the next batch went through whole
C27_Witness ==
  /\ ipc = "done"
  /\ returned # NoneValue
  /\ Len(calls) = 4
  /\ calls[1].kind = "batch" /\ calls[1].outcome # "ok"
  /\ calls[1].hi = calls[1].lo + 1
  /\ calls[2].kind = "chunk" /\ calls[2].outcome = "ok"
  /\ calls[3].kind = "chunk" /\ calls[3].outcome # "ok"
  /\ calls[4].kind = "batch" /\ calls[4].outcome = "ok"

\* C28: an add_document / create_collection attempt that aborts because
\* the file is missing, no encoding decodes it or the format reader fails
\* leaves the vector store as it was before the attempt: no collection is
\* created, deleted or modified.
Aborted == ipc \in {"nofile", "raised"}

C28_AbortLeavesStoreUntouched == Aborted => store = store_before

\* C29: when the connection tests of the LLM service fail in
\* search_and_answer, the query is served in search-only mode: the document
\* search is still made, and no generation request is sent for that query.
C29_SearchOnlyWhenDown ==
  [][ /\ (apc = "probe" /\ probe' = "down") => apc' = "search"
      /\ (probe = "down" /\ apc = "generate") => apc' = "generate" ]_vars

\* C21: the collection name generate_collection_name derives from a
\* filename is the base name without its extension, every non-alphanumeric
\* character replaced by '_': as long as that base name, and made of
\* alphanumeric characters and '_' only.
\* the file name of a path, and the length of its extension: the extension
\* starts at the last dot that has a character other than a dot before it
FileName(p) ==
  LET from == CHOOSE a \in 0..Len(p) :
                /\ a = 0 \/ p[a] = "/"
                /\ \A b \in (a + 1)..Len(p) : p[b] # "/"
  IN SubSeq(p, from + 1, Len(p))

ExtensionLength(f) ==
  LET dots == {d \in 1..Len(f) :
                 /\ f[d] = "."
                 /\ \A e \in (d + 1)..Len(f) : f[e] # "."
                 /\ \E e \in 1..(d - 1) : f[e] # "."}
  IN IF dots = {} THEN 0 ELSE Len(f) - (CHOOSE d \in dots : TRUE) + 1

StrippedBaseName(p) ==
  SubSeq(FileName(p), 1, Len(FileName(p)) - ExtensionLength(FileName(p)))

C21_NameIsUnderscoredBase ==
  npc = "done" =>
    LET base == StrippedBaseName(document_path)
    IN /\ Len(safe_name) = Len(base)
       /\ \A x \in 1..Len(base) :
            /\ safe_name[x] = (IF IsAlnum(base[x]) THEN base[x] ELSE "_")
            /\ IsAlnum(safe_name[x]) \/ safe_name[x] = "_"

\* C21, amended: the name is the base name without its extension, every
\* character that is neither alphanumeric nor '-' nor '_' replaced by '_':
\* as long as that base name, and made of alphanumeric characters, '-' and
\* '_' only.
C21_NameKeepsHyphen ==
  npc = "done" =>
    LET base == StrippedBaseName(document_path)
    IN /\ Len(safe_name) = Len(base)
       /\ \A x \in 1..Len(base) :
            /\ safe_name[x] = (IF IsAlnum(base[x]) \/ base[x] \in {"-", "_"}
                                 THEN base[x] ELSE "_")
            /\ IsAlnum(safe_name[x]) \/ safe_name[x] \in {"-", "_"}

\* a path with a directory and an extension whose base name has a
\* character that is replaced
C21_Witness ==
  /\ npc = "done"
  /\ \E x \in 1..Len(document_path) : document_path[x] = "/"
  /\ ExtensionLength(FileName(document_path)) >= 1
  /\ \E x \in 1..Len(safe_name) :
       /\ safe_name[x] = "_"
       /\ StrippedBaseName(document_path)[x] \in {" ", "."}

====
